---- MODULE Spec2Model ----
(***************************************************************************)
(* Planar-to-chunky image "flipping" of base/gsflip.c (ghostpdl 10.02.1).  *)
(* Spec: one call of image_flip_planes is one step: the arguments are      *)
(* drawn in Init, the step runs the routine the dispatch selects, and the  *)
(* result (return code, output buffer, the plane bytes read and the output *)
(* bytes written) is the final state.                                      *)
(* SpecConc: two such calls at once, one load or store per step.           *)
(* SpecFd / FairSpecFd: s_fileno_read_process and s_fileno_write_process   *)
(* of base/sfxfd.c with their retry of interrupted OS calls.               *)
(***************************************************************************)
EXTENDS Integers, Sequences, FiniteSets, TLC

(* ------------------------------ bounds ------------------------------- *)
MaxPlanes == 5      \* largest num_planes drawn
MaxIters == 2       \* nbytes is drawn up to MaxIters loop iterations' worth
MaxOffset == 1      \* offset is drawn from {0, MaxOffset}
NegPlanes == 2      \* num_planes is drawn from -NegPlanes upwards
DepthSlack == 2     \* bits_per_sample is drawn from 1-DepthSlack .. 16+DepthSlack
Slack == 2          \* bytes of plane storage behind offset + nbytes
NegBytes == 1       \* nbytes is drawn from -NegBytes upwards

\* plane bytes one loop iteration consumes at depth d
GroupBytes(d) == IF d = 12 THEN 3 ELSE IF d = 16 THEN 2 ELSE 1
MaxBytes == 3 * MaxIters
PlaneLen == MaxOffset + MaxBytes + Slack
BufLen == (MaxPlanes + 1) * (MaxBytes + Slack)

Byte == 0..255
OneHot == {128, 64, 32, 16, 8, 4, 2, 1}
BgVals == {0, 60, 255}
\* <<bg, hv>>: one plane byte hv among bytes bg
BytePatterns == {<<0, 165>>, <<0, 240>>, <<0, 15>>, <<60, 165>>, <<255, 0>>}
BitPatterns == {<<0, v>> : v \in OneHot} \cup {<<0, 255>>, <<60, 165>>, <<255, 0>>}
Patterns(d) == IF d < 8 THEN BitPatterns ELSE BytePatterns
FillVals == {238}
SupportedDepths == {1, 2, 4, 8, 12, 16}

(* --------------------------- C arithmetic ---------------------------- *)
Pow2(k) == 2 ^ k

\* a >> k and a << k on non-negative ints
Shr(a, k) == a \div Pow2(k)
Shl(a, k) == a * Pow2(k)

\* the conversion to byte of a store or of a (byte) cast
ToByte(a) == a % 256

RECURSIVE BitAnd(_, _)
BitAnd(a, b) ==
    IF a = 0 \/ b = 0 THEN 0
    ELSE (a % 2) * (b % 2) + 2 * BitAnd(a \div 2, b \div 2)

RECURSIVE BitOr(_, _)
BitOr(a, b) ==
    IF a = 0 THEN b
    ELSE IF b = 0 THEN a
    ELSE (IF a % 2 = 1 \/ b % 2 = 1 THEN 1 ELSE 0) + 2 * BitOr(a \div 2, b \div 2)

RECURSIVE BitXor(_, _)
BitXor(a, b) ==
    IF a = 0 THEN b
    ELSE IF b = 0 THEN a
    ELSE ((a + b) % 2) + 2 * BitXor(a \div 2, b \div 2)

(* ------------------------- memory of one call ------------------------ *)
\* A routine's running state s: s.buf is the output buffer, s.wr the output
\* indices stored to, s.rd the <<plane, index>> pairs loaded; the other
\* fields are the routine's locals.

\* stores that or the value into what the output byte holds
RECURSIVE StoreBytes_or(_, _, _)
StoreBytes_or(s, out, vals) ==
    IF vals = <<>> THEN s
    ELSE StoreBytes_or([s EXCEPT !.buf[out] = BitOr(@, ToByte(Head(vals))),
                                 !.wr = @ \cup {out}],
                       out + 1, Tail(vals))

\* out[0] = vals[1]; out[1] = vals[2]; ...
RECURSIVE StoreBytes(_, _, _)
StoreBytes(s, out, vals) ==
    IF vals = <<>> THEN s
    ELSE StoreBytes([s EXCEPT !.buf[out] = ToByte(Head(vals)),
                              !.wr = @ \cup {out}],
                    out + 1, Tail(vals))

\* the loads *in / in[k] of the plane bytes named in S
Load(s, S) == [s EXCEPT !.rd = @ \cup S]

Ret(code, s) == [code |-> code, buf |-> s.buf, wr |-> s.wr, rd |-> s.rd]

\* The for loops of gsflip.c (l.55, 78, .., 360, 384, 407): while cond holds
\* of the locals s, run body; fuel bounds the number of iterations.
RECURSIVE While(_, _, _, _)
While(cond(_), body(_), s, fuel) ==
    IF fuel = 0 \/ ~cond(s) THEN s
    ELSE IF fuel = 1 THEN body(s)
    ELSE While(cond, body, While(cond, body, s, fuel \div 2),
               fuel - fuel \div 2)

Fuel == 8 * MaxIters + MaxPlanes + 1

\* byte *out = buffer; in = planes[.] + offset; int n = nbytes;
Locals(buffer, offset, nbytes) ==
    [buf |-> buffer, wr |-> {}, rd |-> {}, out |-> 0, in |-> offset,
     n |-> nbytes]

\* out += dout, in += din, n -= din
Advance(s, dout, din) ==
    [s EXCEPT !.out = @ + dout, !.in = @ + din, !.n = @ - din]

Positive(s) == s.n > 0

(* ------------------------- expansion tables -------------------------- *)
\* bit_table_8(x, v80 .. v1): entry b is x plus the v of every bit set in b
bit_table_8(x, v, b) ==
    x + (IF Shr(b, 7) % 2 = 1 THEN v[1] ELSE 0)
      + (IF Shr(b, 6) % 2 = 1 THEN v[2] ELSE 0)
      + (IF Shr(b, 5) % 2 = 1 THEN v[3] ELSE 0)
      + (IF Shr(b, 4) % 2 = 1 THEN v[4] ELSE 0)
      + (IF Shr(b, 3) % 2 = 1 THEN v[5] ELSE 0)
      + (IF Shr(b, 2) % 2 = 1 THEN v[6] ELSE 0)
      + (IF Shr(b, 1) % 2 = 1 THEN v[7] ELSE 0)
      + (IF b % 2 = 1 THEN v[8] ELSE 0)

VTAB(v, b) == bit_table_8(0, v, b)

\* tab3x1 with the 0x40 bit one place too high
tab3x1_bad(b) == VTAB(<<8388608, 2097152, 131072, 16384, 2048, 256, 32, 4>>, b)

tab3x1(b) == VTAB(<<8388608, 1048576, 131072, 16384, 2048, 256, 32, 4>>, b)

tab3x2(b) == VTAB(<<8388608, 4194304, 131072, 65536, 2048, 1024, 32, 16>>, b)

(* ------------------------- 3-plane family ---------------------------- *)
Triple(in) == {<<0, in>>, <<1, in>>, <<2, in>>}

flip3x1_body(planes, s) ==
    LET b24 == BitOr(BitOr(tab3x1(planes[0][s.in]),
                           Shr(tab3x1(planes[1][s.in]), 1)),
                     Shr(tab3x1(planes[2][s.in]), 2))
    IN Advance(StoreBytes(Load(s, Triple(s.in)), s.out,
                          <<Shr(b24, 16), Shr(b24, 8), b24>>), 3, 1)

flip3x1(buffer, planes, offset, nbytes) ==
    Ret(0, While(Positive, LAMBDA s : flip3x1_body(planes, s),
                 Locals(buffer, offset, nbytes), Fuel))

flip3x2_body(planes, s) ==
    LET b24 == BitOr(BitOr(tab3x2(planes[0][s.in]),
                           Shr(tab3x2(planes[1][s.in]), 2)),
                     Shr(tab3x2(planes[2][s.in]), 4))
    IN Advance(StoreBytes(Load(s, Triple(s.in)), s.out,
                          <<Shr(b24, 16), Shr(b24, 8), b24>>), 3, 1)

flip3x2(buffer, planes, offset, nbytes) ==
    Ret(0, While(Positive, LAMBDA s : flip3x2_body(planes, s),
                 Locals(buffer, offset, nbytes), Fuel))

flip3x4_body(planes, s) ==
    LET b1 == planes[0][s.in]
        b2 == planes[1][s.in]
        b3 == planes[2][s.in]
    IN Advance(StoreBytes(Load(s, Triple(s.in)), s.out,
                 << BitOr(BitAnd(b1, 240), Shr(b2, 4)),
                    BitOr(BitAnd(b3, 240), BitAnd(b1, 15)),
                    BitOr(ToByte(Shl(b2, 4)), BitAnd(b3, 15)) >>), 3, 1)

flip3x4(buffer, planes, offset, nbytes) ==
    Ret(0, While(Positive, LAMBDA s : flip3x4_body(planes, s),
                 Locals(buffer, offset, nbytes), Fuel))

\* flip3x8 with planes 1 and 2 stored in each other's place
flip3x8_body_swap(planes, s) ==
    Advance(StoreBytes(Load(s, Triple(s.in)), s.out,
              <<planes[0][s.in], planes[2][s.in], planes[1][s.in]>>), 3, 1)

flip3x8_body(planes, s) ==
    Advance(StoreBytes(Load(s, Triple(s.in)), s.out,
              <<planes[0][s.in], planes[1][s.in], planes[2][s.in]>>), 3, 1)

flip3x8(buffer, planes, offset, nbytes) ==
    Ret(0, While(Positive, LAMBDA s : flip3x8_body(planes, s),
                 Locals(buffer, offset, nbytes), Fuel))

\* flip3x12 taking the wrong nibble of a1 for out[4]
flip3x12_body_bad(planes, s) ==
    LET pa == planes[0]
        pb == planes[1]
        pc == planes[2]
        in == s.in
        a1 == pa[in + 1]
        b0 == pb[in]
        b1 == pb[in + 1]
        b2 == pb[in + 2]
        c1 == pc[in + 1]
    IN Advance(StoreBytes(Load(s, {<<p, in + k>> : p \in 0..2, k \in 0..2}),
                 s.out,
                 << pa[in],
                    BitOr(BitAnd(a1, 240), Shr(b0, 4)),
                    ToByte(BitOr(Shl(b0, 4), Shr(b1, 4))),
                    pc[in],
                    BitOr(BitAnd(c1, 240), Shr(a1, 4)),
                    pa[in + 2],
                    ToByte(BitOr(Shl(b1, 4), Shr(b2, 4))),
                    ToByte(BitOr(Shl(b2, 4), BitAnd(c1, 15))),
                    pc[in + 2] >>), 9, 3)

flip3x12_body(planes, s) ==
    LET pa == planes[0]
        pb == planes[1]
        pc == planes[2]
        in == s.in
        a1 == pa[in + 1]
        b0 == pb[in]
        b1 == pb[in + 1]
        b2 == pb[in + 2]
        c1 == pc[in + 1]
    IN Advance(StoreBytes(Load(s, {<<p, in + k>> : p \in 0..2, k \in 0..2}),
                 s.out,
                 << pa[in],
                    BitOr(BitAnd(a1, 240), Shr(b0, 4)),
                    ToByte(BitOr(Shl(b0, 4), Shr(b1, 4))),
                    pc[in],
                    BitOr(BitAnd(c1, 240), BitAnd(a1, 15)),
                    pa[in + 2],
                    ToByte(BitOr(Shl(b1, 4), Shr(b2, 4))),
                    ToByte(BitOr(Shl(b2, 4), BitAnd(c1, 15))),
                    pc[in + 2] >>), 9, 3)

flip3x12(buffer, planes, offset, nbytes) ==
    Ret(0, While(Positive, LAMBDA s : flip3x12_body(planes, s),
                 Locals(buffer, offset, nbytes), Fuel))

flip3x16_body(planes, s) ==
    LET in == s.in
    IN Advance(StoreBytes(Load(s, {<<p, in + k>> : p \in 0..2, k \in 0..1}),
                 s.out,
                 << planes[0][in], planes[0][in + 1],
                    planes[1][in], planes[1][in + 1],
                    planes[2][in], planes[2][in + 1] >>), 6, 2)

flip3x16(buffer, planes, offset, nbytes) ==
    Ret(0, While(Positive, LAMBDA s : flip3x16_body(planes, s),
                 Locals(buffer, offset, nbytes), Fuel))

(* ------------------------- 4-plane family ---------------------------- *)
\* TRANSPOSE without the shift back into s
TRANSPOSE_noshift(r, s, mask, shift) ==
    LET temp == ToByte(BitAnd(BitXor(Shr(s, shift), r), mask))
    IN << ToByte(BitXor(r, temp)), ToByte(BitXor(s, temp)) >>

\* TRANSPOSE(r,s,mask,shift) on byte temporaries; yields <<r, s>>
TRANSPOSE(r, s, mask, shift) ==
    LET temp == ToByte(BitAnd(BitXor(Shr(s, shift), r), mask))
    IN << ToByte(BitXor(r, temp)), ToByte(BitXor(s, Shl(temp, shift))) >>

Quad(in) == {<<0, in>>, <<1, in>>, <<2, in>>, <<3, in>>}

flip4x1_body(planes, s) ==
    LET in == s.in
        t12 == TRANSPOSE(planes[0][in], planes[1][in], 85, 1)
        t34 == TRANSPOSE(planes[2][in], planes[3][in], 85, 1)
        t13 == TRANSPOSE(t12[1], t34[1], 51, 2)
        t24 == TRANSPOSE(t12[2], t34[2], 51, 2)
        b1 == t13[1]
        b2 == t24[1]
        b3 == t13[2]
        b4 == t24[2]
    IN Advance(StoreBytes(Load(s, Quad(in)), s.out,
                 << BitOr(BitAnd(b1, 240), Shr(b2, 4)),
                    BitOr(BitAnd(b3, 240), Shr(b4, 4)),
                    ToByte(BitOr(Shl(b1, 4), BitAnd(b2, 15))),
                    ToByte(BitOr(Shl(b3, 4), BitAnd(b4, 15))) >>), 4, 1)

flip4x1(buffer, planes, offset, nbytes) ==
    Ret(0, While(Positive, LAMBDA s : flip4x1_body(planes, s),
                 Locals(buffer, offset, nbytes), Fuel))

flip4x2_body(planes, s) ==
    LET in == s.in
        t13 == TRANSPOSE(planes[0][in], planes[2][in], 15, 4)
        t24 == TRANSPOSE(planes[1][in], planes[3][in], 15, 4)
        t12 == TRANSPOSE(t13[1], t24[1], 51, 2)
        t34 == TRANSPOSE(t13[2], t24[2], 51, 2)
    IN Advance(StoreBytes(Load(s, Quad(in)), s.out,
                 <<t12[1], t12[2], t34[1], t34[2]>>), 4, 1)

flip4x2(buffer, planes, offset, nbytes) ==
    Ret(0, While(Positive, LAMBDA s : flip4x2_body(planes, s),
                 Locals(buffer, offset, nbytes), Fuel))

flip4x4_body(planes, s) ==
    LET b1 == planes[0][s.in]
        b2 == planes[1][s.in]
        b3 == planes[2][s.in]
        b4 == planes[3][s.in]
    IN Advance(StoreBytes(Load(s, Quad(s.in)), s.out,
                 << BitOr(BitAnd(b1, 240), Shr(b2, 4)),
                    BitOr(BitAnd(b3, 240), Shr(b4, 4)),
                    ToByte(BitOr(Shl(b1, 4), BitAnd(b2, 15))),
                    ToByte(BitOr(Shl(b3, 4), BitAnd(b4, 15))) >>), 4, 1)

flip4x4(buffer, planes, offset, nbytes) ==
    Ret(0, While(Positive, LAMBDA s : flip4x4_body(planes, s),
                 Locals(buffer, offset, nbytes), Fuel))

flip4x8_body(planes, s) ==
    Advance(StoreBytes(Load(s, Quad(s.in)), s.out,
              << planes[0][s.in], planes[1][s.in],
                 planes[2][s.in], planes[3][s.in] >>), 4, 1)

flip4x8(buffer, planes, offset, nbytes) ==
    Ret(0, While(Positive, LAMBDA s : flip4x8_body(planes, s),
                 Locals(buffer, offset, nbytes), Fuel))

flip4x12_body(planes, s) ==
    LET pa == planes[0]
        pb == planes[1]
        pc == planes[2]
        pd == planes[3]
        in == s.in
        a1 == pa[in + 1]
        b1 == pb[in + 1]
        c1 == pc[in + 1]
        d1 == pd[in + 1]
    IN Advance(StoreBytes(Load(s, {<<p, in + k>> : p \in 0..3, k \in 0..2}),
                 s.out,
                 << pa[in],
                    BitOr(BitAnd(a1, 240), Shr(pb[in], 4)),
                    ToByte(BitOr(Shl(pb[in], 4), Shr(b1, 4))),
                    pc[in],
                    BitOr(BitAnd(c1, 240), Shr(pd[in], 4)),
                    ToByte(BitOr(Shl(pd[in], 4), Shr(d1, 4))),
                    ToByte(BitOr(Shl(a1, 4), Shr(pa[in + 2], 4))),
                    ToByte(BitOr(Shl(pa[in + 2], 4), BitAnd(b1, 15))),
                    pb[in + 2],
                    ToByte(BitOr(Shl(c1, 4), Shr(pc[in + 2], 4))),
                    ToByte(BitOr(Shl(pc[in + 2], 4), BitAnd(d1, 15))),
                    pd[in + 2] >>), 12, 3)

flip4x12(buffer, planes, offset, nbytes) ==
    Ret(0, While(Positive, LAMBDA s : flip4x12_body(planes, s),
                 Locals(buffer, offset, nbytes), Fuel))

flip4x16_body(planes, s) ==
    LET in == s.in
    IN Advance(StoreBytes(Load(s, {<<p, in + k>> : p \in 0..3, k \in 0..1}),
                 s.out,
                 << planes[0][in], planes[0][in + 1],
                    planes[1][in], planes[1][in + 1],
                    planes[2][in], planes[2][in + 1],
                    planes[3][in], planes[3][in + 1] >>), 8, 2)

flip4x16(buffer, planes, offset, nbytes) ==
    Ret(0, While(Positive, LAMBDA s : flip4x16_body(planes, s),
                 Locals(buffer, offset, nbytes), Fuel))

(* ------------------------- output bit cursor ------------------------- *)
\* s.dptr is the output index, s.dbit the bits pending in s.dbbyte

\* Shift a width-bit value into the accumulator and emit every byte that fills.
RECURSIVE AppendBits(_, _, _)
AppendBits(s, value, width) ==
    LET nb == s.dbit + width
        take == 8 - s.dbit
    IN IF nb >= 8 THEN
           LET s1 == [StoreBytes(s, s.dptr,
                                 <<BitOr(s.dbbyte, Shr(value, width - take))>>)
                         EXCEPT !.dptr = @ + 1, !.dbit = 0, !.dbbyte = 0]
           IN IF width = take THEN s1
              ELSE AppendBits(s1, value % Pow2(width - take), width - take)
       ELSE [s EXCEPT !.dbit = nb, !.dbbyte = BitOr(@, Shl(value, 8 - nb))]

\* sample_store_next8: negative when the field cannot be appended
sample_store_next8(s, value, dbpv) ==
    IF dbpv > 8 \/ s.dbit + dbpv > 8
    THEN [code |-> -1, s |-> s]
    ELSE [code |-> 0, s |-> AppendBits(s, value, dbpv)]

sample_store_next_12(s, value) == AppendBits(s, value, 12)

\* sample_store_flush: a partly filled accumulator goes out, low bits zero
sample_store_flush(s) ==
    IF s.dbit # 0 THEN StoreBytes(s, s.dptr, <<s.dbbyte>>) ELSE s

(* ------------------------- generic N-plane path ---------------------- *)
gs_error_rangecheck == -15

\* byte *dptr = buffer; int dbit = 0; byte dbbyte = 0; bi = 0
LocalsN(buffer) ==
    [buf |-> buffer, wr |-> {}, rd |-> {}, dptr |-> 0, dbit |-> 0,
     dbbyte |-> 0, bi |-> 0, pi |-> 0, code |-> 0]

\* flipNx1to8 taking the fields of a byte from the low end
flipNx1to8_inner_lsb(planes, offset, bits_per_sample, s) ==
    LET mask == Shl(1, bits_per_sample) - 1
        sptr == offset + Shr(s.bi, 3)
        value == BitAnd(Shr(planes[s.pi][sptr], BitAnd(s.bi, 7)), mask)
        r == sample_store_next8(Load(s, {<<s.pi, sptr>>}), value,
                                bits_per_sample)
    IN IF r.code < 0 THEN [r.s EXCEPT !.code = gs_error_rangecheck]
       ELSE [r.s EXCEPT !.pi = @ + 1]

flipNx1to8_inner(planes, offset, bits_per_sample, s) ==
    LET mask == Shl(1, bits_per_sample) - 1
        sptr == offset + Shr(s.bi, 3)
        value == BitAnd(Shr(planes[s.pi][sptr],
                            8 - BitAnd(s.bi, 7) - bits_per_sample), mask)
        r == sample_store_next8(Load(s, {<<s.pi, sptr>>}), value,
                                bits_per_sample)
    IN IF r.code < 0 THEN [r.s EXCEPT !.code = gs_error_rangecheck]
       ELSE [r.s EXCEPT !.pi = @ + 1]

flipNx1to8_outer(planes, offset, num_planes, bits_per_sample, s) ==
    LET t == While(LAMBDA u : u.code = 0 /\ u.pi < num_planes,
                   LAMBDA u : flipNx1to8_inner(planes, offset,
                                               bits_per_sample, u),
                   [s EXCEPT !.pi = 0], Fuel)
    IN IF t.code < 0 THEN t ELSE [t EXCEPT !.bi = @ + bits_per_sample]

flipNx1to8(buffer, planes, offset, nbytes, num_planes, bits_per_sample) ==
    LET t == While(LAMBDA u : u.code = 0 /\ u.bi < nbytes * 8,
                   LAMBDA u : flipNx1to8_outer(planes, offset, num_planes,
                                               bits_per_sample, u),
                   LocalsN(buffer), Fuel)
    IN IF t.code < 0 THEN Ret(t.code, t) ELSE Ret(0, sample_store_flush(t))

\* flipNx12 loading a third byte for every sample
flipNx12_inner_wide(planes, offset, s) ==
    LET sptr == offset + Shr(s.bi, 3)
        s0 == planes[s.pi][sptr]
        s1 == planes[s.pi][sptr + 1]
        value == IF BitAnd(s.bi, 4) # 0
                 THEN BitOr(Shl(BitAnd(s0, 15), 8), s1)
                 ELSE BitOr(Shl(s0, 4), Shr(s1, 4))
    IN [sample_store_next_12(Load(s, {<<s.pi, sptr>>, <<s.pi, sptr + 1>>,
                                      <<s.pi, sptr + 2>>}),
                             value)
           EXCEPT !.pi = @ + 1]

flipNx12_inner(planes, offset, s) ==
    LET sptr == offset + Shr(s.bi, 3)
        s0 == planes[s.pi][sptr]
        s1 == planes[s.pi][sptr + 1]
        value == IF BitAnd(s.bi, 4) # 0
                 THEN BitOr(Shl(BitAnd(s0, 15), 8), s1)
                 ELSE BitOr(Shl(s0, 4), Shr(s1, 4))
    IN [sample_store_next_12(Load(s, {<<s.pi, sptr>>, <<s.pi, sptr + 1>>}),
                             value)
           EXCEPT !.pi = @ + 1]

flipNx12_outer(planes, offset, num_planes, s) ==
    [While(LAMBDA u : u.pi < num_planes,
           LAMBDA u : flipNx12_inner(planes, offset, u),
           [s EXCEPT !.pi = 0], Fuel)
        EXCEPT !.bi = @ + 12]

flipNx12(buffer, planes, offset, nbytes, num_planes, ignore_bits_per_sample) ==
    Ret(0, sample_store_flush(
               While(LAMBDA u : u.bi < nbytes * 8,
                     LAMBDA u : flipNx12_outer(planes, offset, num_planes, u),
                     LocalsN(buffer), Fuel)))

\* flipNx16 swapping the two bytes of a sample
flipNx16_inner_swab(planes, offset, s) ==
    LET sptr == offset + s.bi
    IN [StoreBytes(Load(s, {<<s.pi, sptr>>, <<s.pi, sptr + 1>>}), s.dptr,
                   <<planes[s.pi][sptr + 1], planes[s.pi][sptr]>>)
           EXCEPT !.dptr = @ + 2, !.pi = @ + 1]

flipNx16_inner(planes, offset, s) ==
    LET sptr == offset + s.bi
    IN [StoreBytes(Load(s, {<<s.pi, sptr>>, <<s.pi, sptr + 1>>}), s.dptr,
                   <<planes[s.pi][sptr], planes[s.pi][sptr + 1]>>)
           EXCEPT !.dptr = @ + 2, !.pi = @ + 1]

flipNx16_outer(planes, offset, num_planes, s) ==
    [While(LAMBDA u : u.pi < num_planes,
           LAMBDA u : flipNx16_inner(planes, offset, u),
           [s EXCEPT !.pi = 0], Fuel)
        EXCEPT !.bi = @ + 2]

\* flipNx16 looping while bi <= nbytes
flipNx16_le(buffer, planes, offset, nbytes, num_planes, ignore_bits_per_sample) ==
    Ret(0, While(LAMBDA u : u.bi <= nbytes,
                 LAMBDA u : flipNx16_outer(planes, offset, num_planes, u),
                 LocalsN(buffer), Fuel))

flipNx16(buffer, planes, offset, nbytes, num_planes, ignore_bits_per_sample) ==
    Ret(0, While(LAMBDA u : u.bi < nbytes,
                 LAMBDA u : flipNx16_outer(planes, offset, num_planes, u),
                 LocalsN(buffer), Fuel))

(* ------------------------------ dispatch ----------------------------- *)
\* a return before any load or store
Untouched(buffer) == [buf |-> buffer, wr |-> {}, rd |-> {}]

flip_fail(buffer, planes, offset, nbytes) == Ret(-1, Untouched(buffer))

flipN_fail(buffer, planes, offset, nbytes, num_planes, bits_per_sample) ==
    Ret(-1, Untouched(buffer))

\* image_flip3_procs with flip3x4 in the slot of depth 3
image_flip3_procs_bad ==
    [d \in 0..16 |->
        CASE d = 1 -> "flip3x1" [] d = 2 -> "flip3x2" [] d \in {3, 4} -> "flip3x4"
          [] d = 8 -> "flip3x8" [] d = 12 -> "flip3x12" [] d = 16 -> "flip3x16"
          [] OTHER -> "flip_fail"]

image_flip3_procs ==
    [d \in 0..16 |->
        CASE d = 1 -> "flip3x1" [] d = 2 -> "flip3x2" [] d = 4 -> "flip3x4"
          [] d = 8 -> "flip3x8" [] d = 12 -> "flip3x12" [] d = 16 -> "flip3x16"
          [] OTHER -> "flip_fail"]

\* image_flip4_procs with flip_fail in the slot of depth 16
image_flip4_procs_bad ==
    [d \in 0..16 |->
        CASE d = 1 -> "flip4x1" [] d = 2 -> "flip4x2" [] d = 4 -> "flip4x4"
          [] d = 8 -> "flip4x8" [] d = 12 -> "flip4x12"
          [] OTHER -> "flip_fail"]

image_flip4_procs ==
    [d \in 0..16 |->
        CASE d = 1 -> "flip4x1" [] d = 2 -> "flip4x2" [] d = 4 -> "flip4x4"
          [] d = 8 -> "flip4x8" [] d = 12 -> "flip4x12" [] d = 16 -> "flip4x16"
          [] OTHER -> "flip_fail"]

image_flipN_procs ==
    [d \in 0..16 |->
        CASE d \in {1, 2, 4, 8} -> "flipNx1to8"
          [] d = 12 -> "flipNx12" [] d = 16 -> "flipNx16"
          [] OTHER -> "flipN_fail"]

\* the call through an image_flip_proc pointer
image_flip_proc(proc, buffer, planes, offset, nbytes) ==
    CASE proc = "flip3x1" -> flip3x1(buffer, planes, offset, nbytes)
      [] proc = "flip3x2" -> flip3x2(buffer, planes, offset, nbytes)
      [] proc = "flip3x4" -> flip3x4(buffer, planes, offset, nbytes)
      [] proc = "flip3x8" -> flip3x8(buffer, planes, offset, nbytes)
      [] proc = "flip3x12" -> flip3x12(buffer, planes, offset, nbytes)
      [] proc = "flip3x16" -> flip3x16(buffer, planes, offset, nbytes)
      [] proc = "flip4x1" -> flip4x1(buffer, planes, offset, nbytes)
      [] proc = "flip4x2" -> flip4x2(buffer, planes, offset, nbytes)
      [] proc = "flip4x4" -> flip4x4(buffer, planes, offset, nbytes)
      [] proc = "flip4x8" -> flip4x8(buffer, planes, offset, nbytes)
      [] proc = "flip4x12" -> flip4x12(buffer, planes, offset, nbytes)
      [] proc = "flip4x16" -> flip4x16(buffer, planes, offset, nbytes)
      [] proc = "flip_fail" -> flip_fail(buffer, planes, offset, nbytes)

\* the call through an image_flipN_proc pointer
image_flipN_proc(proc, buffer, planes, offset, nbytes, num_planes, bits_per_sample) ==
    CASE proc = "flipNx1to8" ->
            flipNx1to8(buffer, planes, offset, nbytes, num_planes,
                       bits_per_sample)
      [] proc = "flipNx12" ->
            flipNx12(buffer, planes, offset, nbytes, num_planes,
                     bits_per_sample)
      [] proc = "flipNx16" ->
            flipNx16(buffer, planes, offset, nbytes, num_planes,
                     bits_per_sample)
      [] proc = "flipN_fail" ->
            flipN_fail(buffer, planes, offset, nbytes, num_planes,
                       bits_per_sample)

\* image_flip_planes returning 0 for a depth out of range
image_flip_planes_ret0(buffer, planes, offset, nbytes, num_planes, bits_per_sample) ==
    IF bits_per_sample < 1 \/ bits_per_sample > 16
    THEN Ret(0, Untouched(buffer))
    ELSE CASE num_planes = 3 ->
                image_flip_proc(image_flip3_procs[bits_per_sample],
                                buffer, planes, offset, nbytes)
           [] num_planes = 4 ->
                image_flip_proc(image_flip4_procs[bits_per_sample],
                                buffer, planes, offset, nbytes)
           [] OTHER ->
                IF num_planes < 0 THEN Ret(-1, Untouched(buffer))
                ELSE image_flipN_proc(image_flipN_procs[bits_per_sample],
                                      buffer, planes, offset, nbytes,
                                      num_planes, bits_per_sample)

\* image_flip_planes without the test for a negative num_planes
image_flip_planes_noneg(buffer, planes, offset, nbytes, num_planes, bits_per_sample) ==
    IF bits_per_sample < 1 \/ bits_per_sample > 16
    THEN Ret(-1, Untouched(buffer))
    ELSE CASE num_planes = 3 ->
                image_flip_proc(image_flip3_procs[bits_per_sample],
                                buffer, planes, offset, nbytes)
           [] num_planes = 4 ->
                image_flip_proc(image_flip4_procs[bits_per_sample],
                                buffer, planes, offset, nbytes)
           [] OTHER ->
                image_flipN_proc(image_flipN_procs[bits_per_sample],
                                 buffer, planes, offset, nbytes,
                                 num_planes, bits_per_sample)

image_flip_planes(buffer, planes, offset, nbytes, num_planes, bits_per_sample) ==
    IF bits_per_sample < 1 \/ bits_per_sample > 16
    THEN Ret(-1, Untouched(buffer))
    ELSE CASE num_planes = 3 ->
                image_flip_proc(image_flip3_procs[bits_per_sample],
                                buffer, planes, offset, nbytes)
           [] num_planes = 4 ->
                image_flip_proc(image_flip4_procs[bits_per_sample],
                                buffer, planes, offset, nbytes)
           [] OTHER ->
                IF num_planes < 0 THEN Ret(-1, Untouched(buffer))
                ELSE image_flipN_proc(image_flipN_procs[bits_per_sample],
                                      buffer, planes, offset, nbytes,
                                      num_planes, bits_per_sample)

(* ---------------------- the routines step by step -------------------- *)
\* The same routines taken one loop iteration at a time, for calls that run
\* at the same time: the loop of a fixed routine, and for a generic routine
\* the inner loop over the planes with the step of the outer loop as an
\* iteration of its own.

\* the routine image_flip_planes calls, "none" where it returns -1 itself
image_flip_select(num_planes, bits_per_sample) ==
    IF bits_per_sample < 1 \/ bits_per_sample > 16 THEN "none"
    ELSE CASE num_planes = 3 -> image_flip3_procs[bits_per_sample]
           [] num_planes = 4 -> image_flip4_procs[bits_per_sample]
           [] OTHER -> IF num_planes < 0 THEN "none"
                       ELSE image_flipN_procs[bits_per_sample]

FixedProcs ==
    {"flip3x1", "flip3x2", "flip3x4", "flip3x8", "flip3x12", "flip3x16",
     "flip4x1", "flip4x2", "flip4x4", "flip4x8", "flip4x12", "flip4x16"}

\* the locals of a routine before its loop
proc_entry(proc, buffer, offset, nbytes) ==
    IF proc \in FixedProcs THEN Locals(buffer, offset, nbytes)
    ELSE LocalsN(buffer)

\* the condition of the loop
proc_cond(proc, nbytes, s) ==
    CASE proc \in FixedProcs -> Positive(s)
      [] proc = "flipNx1to8" -> s.code = 0 /\ s.bi < nbytes * 8
      [] proc = "flipNx12" -> s.bi < nbytes * 8
      [] proc = "flipNx16" -> s.bi < nbytes
      [] OTHER -> FALSE

\* one iteration
proc_step(proc, planes, offset, num_planes, bits_per_sample, s) ==
    CASE proc = "flip3x1" -> flip3x1_body(planes, s)
      [] proc = "flip3x2" -> flip3x2_body(planes, s)
      [] proc = "flip3x4" -> flip3x4_body(planes, s)
      [] proc = "flip3x8" -> flip3x8_body(planes, s)
      [] proc = "flip3x12" -> flip3x12_body(planes, s)
      [] proc = "flip3x16" -> flip3x16_body(planes, s)
      [] proc = "flip4x1" -> flip4x1_body(planes, s)
      [] proc = "flip4x2" -> flip4x2_body(planes, s)
      [] proc = "flip4x4" -> flip4x4_body(planes, s)
      [] proc = "flip4x8" -> flip4x8_body(planes, s)
      [] proc = "flip4x12" -> flip4x12_body(planes, s)
      [] proc = "flip4x16" -> flip4x16_body(planes, s)
      [] proc = "flipNx1to8" ->
            IF s.pi < num_planes
            THEN flipNx1to8_inner(planes, offset, bits_per_sample, s)
            ELSE [s EXCEPT !.bi = @ + bits_per_sample, !.pi = 0]
      [] proc = "flipNx12" ->
            IF s.pi < num_planes THEN flipNx12_inner(planes, offset, s)
            ELSE [s EXCEPT !.bi = @ + 12, !.pi = 0]
      [] proc = "flipNx16" ->
            IF s.pi < num_planes THEN flipNx16_inner(planes, offset, s)
            ELSE [s EXCEPT !.bi = @ + 2, !.pi = 0]

\* behind the loop: the flush of a bit cursor, and the return
proc_return(proc, s) ==
    CASE proc \in FixedProcs \cup {"flipNx16"} -> Ret(0, s)
      [] proc = "flipNx1to8" ->
            IF s.code < 0 THEN Ret(s.code, s)
            ELSE Ret(0, sample_store_flush(s))
      [] proc = "flipNx12" -> Ret(0, sample_store_flush(s))
      [] OTHER -> Ret(-1, s)

\* the locals of call t with dbit and dbbyte in static storage: every call
\* reads the ones of call 0
Auto_static(T, t) ==
    IF "dbbyte" \in DOMAIN T[t].s /\ "dbbyte" \in DOMAIN T[0].s
    THEN [T[t].s EXCEPT !.dbbyte = T[0].s.dbbyte, !.dbit = T[0].s.dbit]
    ELSE T[t].s

\* the locals of call t: automatic, one set per call
Auto(T, t) == T[t].s

(* --------------------------- state machine --------------------------- *)
VARIABLES
    planes,             \* planes[p][i]: byte i of plane p, p in 0..num_planes-1
    offset,
    nbytes,
    num_planes,
    bits_per_sample,
    fill,               \* what every output byte held before the call
    buffer,             \* the output buffer
    pc,                 \* "ready" before the call, "done" after it
    code,               \* the value image_flip_planes returned
    wr,                 \* output indices the call stored to
    rd,                 \* <<plane, index>> pairs the call loaded
    th,                 \* th[t]: the call of thread t when two calls run at once
    sproc,              \* "read" / "write": the file stream routine running
    ptr,                \* pw->ptr (read) or pr->ptr (write)
    limit,              \* pw->limit or pr->limit
    ptr0,               \* ptr on entry
    file_limit,         \* s->file_limit
    status,             \* the routine's status / return value
    nret,               \* nread or nwrite of the last OS call
    errno,              \* errno after the last OS call
    spc,                \* "again" at the label, "returned" after the OS call, "done"
    retried             \* the routine has gone back to again

flipvars == <<planes, offset, nbytes, num_planes, bits_per_sample, fill, buffer, pc, code, wr, rd>>

fdvars == <<sproc, ptr, limit, ptr0, file_limit, status, nret, errno, spc, retried>>

vars == <<flipvars, th, fdvars>>

\* no concurrent calls are running
IdleThreads == th = <<>>

\* no file stream routine is running
IdleFd ==
    /\ sproc = "none" /\ ptr = 0 /\ limit = 0 /\ ptr0 = 0 /\ file_limit = 0
    /\ status = "none" /\ nret = 0 /\ errno = "none" /\ spc = "idle"
    /\ retried = FALSE

\* P planes of PlaneLen bytes, all bg except byte hi of plane hp, which is hv
MkPlanes(P, bg, hp, hi, hv) ==
    [p \in 0..(P - 1) |->
        [i \in 0..(PlaneLen - 1) |-> IF p = hp /\ i = hi THEN hv ELSE bg]]

PlaneChoices(P, d, o, n) ==
    {MkPlanes(P, bg, -1, -1, bg) : bg \in BgVals}
    \cup (IF d \in SupportedDepths /\ P >= 1
          THEN UNION {{MkPlanes(P, pat[1], hp, hi, pat[2]) :
                          hp \in 0..(P - 1), hi \in o..(o + n - 1)} :
                      pat \in Patterns(d)}
          ELSE {})

Init ==
    /\ num_planes \in (-NegPlanes)..MaxPlanes
    /\ bits_per_sample \in (1 - DepthSlack)..(16 + DepthSlack)
    /\ nbytes \in (-NegBytes)..(MaxIters * GroupBytes(bits_per_sample))
    /\ offset \in {0, MaxOffset}
    /\ planes \in PlaneChoices(num_planes, bits_per_sample, offset, nbytes)
    /\ fill \in FillVals
    /\ buffer = [i \in 0..(BufLen - 1) |-> fill]
    /\ pc = "ready"
    /\ code = 0
    /\ wr = {}
    /\ rd = {}
    /\ IdleThreads
    /\ IdleFd

Call ==
    /\ pc = "ready"
    /\ LET r == image_flip_planes(buffer, planes, offset, nbytes, num_planes,
                                  bits_per_sample)
       IN /\ buffer' = r.buf
          /\ code' = r.code
          /\ wr' = r.wr
          /\ rd' = r.rd
    /\ pc' = "done"
    /\ UNCHANGED <<planes, offset, nbytes, num_planes, bits_per_sample, fill>>
    /\ UNCHANGED <<th, fdvars>>

Next == Call

Spec == Init /\ [][Next]_vars

TypeOK ==
    /\ pc \in {"ready", "done"}
    /\ \A i \in DOMAIN buffer : buffer[i] \in Byte
    /\ DOMAIN buffer = 0..(BufLen - 1)
    /\ wr \subseteq 0..(BufLen - 1)
    /\ \A x \in rd : x[1] \in 0..(num_planes - 1) /\ x[2] \in 0..(PlaneLen - 1)

(* ------------------------- two calls at once ------------------------- *)
\* Two threads call image_flip_planes with the same arguments, each on an
\* output buffer of its own.  A step of a thread is one load of a plane byte,
\* one store of an output byte, or the end of a loop iteration; the steps of
\* the two threads interleave freely.  th[t].snap holds the plane bytes
\* thread t has loaded, th[t].ld and th[t].st the loads and stores done in the
\* iteration under way.

Threads == {0, 1}

ConcPlanes == {-1, 1, 3, 4, MaxPlanes}

InitConc ==
    /\ num_planes \in ConcPlanes
    /\ bits_per_sample \in SupportedDepths \cup {3}
    /\ nbytes \in {k * GroupBytes(bits_per_sample) :
                      k \in IF num_planes \in {3, 4} THEN {1, MaxIters} ELSE {1}}
    /\ offset = MaxOffset
    /\ planes = MkPlanes(num_planes, 60, 0, offset, 165)
    /\ fill \in FillVals
    /\ buffer = [i \in 0..(BufLen - 1) |-> fill]
    /\ pc = "idle" /\ code = 0 /\ wr = {} /\ rd = {}
    /\ th = [t \in Threads |->
               [pc |-> "call", proc |-> "none", code |-> 0,
                s |-> Untouched(buffer),
                snap |-> [p \in 0..(num_planes - 1) |->
                            [i \in 0..(PlaneLen - 1) |-> 0]],
                ld |-> {}, st |-> {}]]
    /\ IdleFd

\* image_flip_planes up to the call of the routine
Enter(t) ==
    /\ th[t].pc = "call"
    /\ LET proc == image_flip_select(num_planes, bits_per_sample)
       IN th' = [th EXCEPT ![t].pc = "loop", ![t].proc = proc,
                           ![t].s = proc_entry(proc, th[t].s.buf, offset,
                                               nbytes)]
    /\ UNCHANGED <<flipvars, fdvars>>

InLoop(t) ==
    th[t].pc = "loop" /\ proc_cond(th[t].proc, nbytes, Auto(th, t))

\* the iteration under way, run on the plane bytes loaded so far; its rd and
\* wr are the loads and stores of this iteration alone
Iter(t) ==
    proc_step(th[t].proc, th[t].snap, offset, num_planes, bits_per_sample,
              [Auto(th, t) EXCEPT !.rd = {}, !.wr = {}])

FirstLoad(L) ==
    CHOOSE x \in L : \A y \in L : x[1] * PlaneLen + x[2] <= y[1] * PlaneLen + y[2]

FirstStore(W) == CHOOSE i \in W : \A j \in W : i <= j

\* the next load of the iteration
LoadOne(t) ==
    /\ InLoop(t)
    /\ LET L == Iter(t).rd \ th[t].ld
       IN /\ L # {}
          /\ LET x == FirstLoad(L)
             IN th' = [th EXCEPT ![t].snap[x[1]][x[2]] = planes[x[1]][x[2]],
                                 ![t].ld = @ \cup {x}]
    /\ UNCHANGED <<flipvars, fdvars>>

\* the next store of the iteration, once its loads are done
StoreOne(t) ==
    /\ InLoop(t)
    /\ LET r == Iter(t)
           W == r.wr \ th[t].st
       IN /\ r.rd \subseteq th[t].ld
          /\ W # {}
          /\ LET i == FirstStore(W)
             IN th' = [th EXCEPT ![t].s.buf[i] = r.buf[i],
                                 ![t].st = @ \cup {i}]
    /\ UNCHANGED <<flipvars, fdvars>>

\* the end of the iteration: the locals take their new values
EndIter(t) ==
    /\ InLoop(t)
    /\ LET r == Iter(t)
       IN /\ r.rd \subseteq th[t].ld
          /\ r.wr \subseteq th[t].st
          /\ th' = [th EXCEPT ![t].s = [r EXCEPT !.rd = @ \cup th[t].s.rd,
                                                 !.wr = @ \cup th[t].s.wr],
                              ![t].ld = {}, ![t].st = {}]
    /\ UNCHANGED <<flipvars, fdvars>>

\* the loop is over: the routine and image_flip_planes return
Return(t) ==
    /\ th[t].pc = "loop"
    /\ ~proc_cond(th[t].proc, nbytes, Auto(th, t))
    /\ LET r == proc_return(th[t].proc, Auto(th, t))
       IN th' = [th EXCEPT ![t].pc = "done", ![t].code = r.code,
                           ![t].s = [buf |-> r.buf, wr |-> r.wr, rd |-> r.rd]]
    /\ UNCHANGED <<flipvars, fdvars>>

NextConc ==
    \E t \in Threads :
        Enter(t) \/ LoadOne(t) \/ StoreOne(t) \/ EndIter(t) \/ Return(t)

SpecConc == InitConc /\ [][NextConc]_vars

(* ------------------- file stream: base/sfxfd.c ----------------------- *)
\* One call of s_fileno_read_process or s_fileno_write_process.  The cursor
\* is pw (read) or pr (write); the OS call read() / write() returns any count
\* up to the one asked for, or -1 with an errno.  The file position is at the
\* start of the subfile, so limit_count is file_limit.

MaxCount == 2       \* largest limit - ptr drawn

\* a file_limit above every count drawn: the stream is not confined
S_FILE_LIMIT_MAX == 2 * MaxCount + 1

EOFC == "EOFC"
ERRC == "ERRC"

Errnos == {"EINTR", "EAGAIN", "EWOULDBLOCK", "EIO", "EBADF"}

\* errno_is_retry not retrying EINTR
errno_is_retry_nointr(errn) == errn \in {"EAGAIN", "EWOULDBLOCK"}

\* the switch of errno_is_retry where the three macros are defined
errno_is_retry(errn) == errn \in {"EINTR", "EAGAIN", "EWOULDBLOCK"}

InitFd ==
    /\ planes = <<>> /\ offset = 0 /\ nbytes = 0 /\ num_planes = 0
    /\ bits_per_sample = 0 /\ fill = 0 /\ buffer = <<>> /\ pc = "idle"
    /\ code = 0 /\ wr = {} /\ rd = {}
    /\ IdleThreads
    /\ sproc \in {"read", "write"}
    /\ ptr0 \in 0..MaxCount
    /\ limit \in ptr0..MaxCount
    /\ ptr = ptr0
    /\ file_limit \in (IF sproc = "read" THEN 0..MaxCount ELSE {})
                         \cup {S_FILE_LIMIT_MAX}
    /\ status = "none" /\ nret = 0 /\ errno = "none"
    /\ spc = "again"
    /\ retried = FALSE

\* the OS call returns n, and errno e when n < 0
OsReturn(n, e) ==
    /\ nret' = n
    /\ errno' = IF n < 0 THEN e ELSE errno
    /\ spc' = "returned"

\* again: max_count, status, nread = read(fd, pw->ptr + 1, max_count)
ReadCall ==
    /\ spc = "again" /\ sproc = "read"
    /\ LET confined == file_limit < S_FILE_LIMIT_MAX /\ limit - ptr > file_limit
           max_count == IF confined THEN file_limit ELSE limit - ptr
       IN /\ status' = IF confined THEN EOFC ELSE "1"
          /\ \E n \in (-1)..max_count : \E e \in Errnos : OsReturn(n, e)
    /\ UNCHANGED <<flipvars, th, sproc, ptr, limit, ptr0, file_limit, retried>>

\* the if chain behind read()
ReadCheck ==
    /\ spc = "returned" /\ sproc = "read"
    /\ IF nret > 0
       THEN ptr' = ptr + nret /\ status' = status /\ spc' = "done"
            /\ retried' = retried
       ELSE IF nret = 0
       THEN ptr' = ptr /\ status' = EOFC /\ spc' = "done" /\ retried' = retried
       ELSE IF errno_is_retry(errno)
       THEN ptr' = ptr /\ status' = status /\ spc' = "again" /\ retried' = TRUE
       ELSE ptr' = ptr /\ status' = ERRC /\ spc' = "done" /\ retried' = retried
    /\ UNCHANGED <<flipvars, th, sproc, limit, ptr0, file_limit, nret, errno>>

\* again: count = pr->limit - pr->ptr; if (count == 0) return 0;
WriteNothing ==
    /\ spc = "again" /\ sproc = "write"
    /\ limit - ptr = 0
    /\ status' = "0" /\ spc' = "done"
    /\ UNCHANGED <<flipvars, th, sproc, ptr, limit, ptr0, file_limit, nret, errno, retried>>

\* nwrite = write(fd, pr->ptr + 1, count)
WriteCall ==
    /\ spc = "again" /\ sproc = "write"
    /\ limit - ptr # 0
    /\ \E n \in (-1)..(limit - ptr) : \E e \in Errnos : OsReturn(n, e)
    /\ UNCHANGED <<flipvars, th, sproc, ptr, limit, ptr0, file_limit, status, retried>>

\* the if chain behind write()
WriteCheck ==
    /\ spc = "returned" /\ sproc = "write"
    /\ IF nret >= 0
       THEN ptr' = ptr + nret /\ status' = "0" /\ spc' = "done"
            /\ retried' = retried
       ELSE IF errno_is_retry(errno)
       THEN ptr' = ptr /\ status' = status /\ spc' = "again" /\ retried' = TRUE
       ELSE ptr' = ptr /\ status' = ERRC /\ spc' = "done" /\ retried' = retried
    /\ UNCHANGED <<flipvars, th, sproc, limit, ptr0, file_limit, nret, errno>>

NextFd == ReadCall \/ ReadCheck \/ WriteNothing \/ WriteCall \/ WriteCheck

SpecFd == InitFd /\ [][NextFd]_vars

\* the routine keeps running until it returns, and read() / write() return
FairSpecFd == SpecFd /\ WF_vars(NextFd)

(* ------------------------------ properties --------------------------- *)
Done == pc = "done"

\* the output buffer as it was before the call
InitBuf == [i \in 0..(BufLen - 1) |-> fill]

\* bit q (0 = least significant) of a
Bit(a, q) == (a \div (2 ^ q)) % 2

\* the w-bit field that starts bitoffset bits below the top of a byte
InField(byte, bitoffset, w) == (byte \div (2 ^ (8 - bitoffset - w))) % (2 ^ w)

\* the w-bit field (w dividing 8) at bit position pos of the output, MSB first
OutField(pos, w) == InField(buffer[pos \div 8], pos % 8, w)

\* C1: at depth 8 every call with num_planes >= 1 succeeds and output byte
\* i*num_planes + p is byte offset + i of plane p.
C1_Depth8Identity ==
    (Done /\ bits_per_sample = 8 /\ num_planes >= 1) =>
        /\ code = 0
        /\ \A i \in 0..(nbytes - 1) : \A p \in 0..(num_planes - 1) :
               buffer[i * num_planes + p] = planes[p][offset + i]

C1_Witness ==
    /\ Done /\ bits_per_sample = 8 /\ num_planes = 3 /\ nbytes = 2
    /\ planes[1][offset + 1] = 165 /\ planes[1][offset] = 60
    /\ buffer[4] = 165

\* C2: the generic packer emits, for each sample index in increasing order and
\* each plane in input order, the field (byte >> (8 - bitoffset - w)) & mask;
\* planes 0xA5, 0x3C at depth 4 give 0xA3, 0x5C.
C2_GenericLayout ==
    (Done /\ num_planes >= 1 /\ num_planes \notin {3, 4}
          /\ bits_per_sample \in {1, 2, 4, 8}) =>
        LET w == bits_per_sample
        IN /\ code = 0
           /\ \A sm \in 0..((nbytes * 8) \div w - 1) :
                \A p \in 0..(num_planes - 1) :
                  OutField((sm * num_planes + p) * w, w)
                    = InField(planes[p][offset + (sm * w) \div 8],
                              (sm * w) % 8, w)
           /\ (num_planes = 2 /\ w = 4 /\ nbytes = 1
                 /\ planes[0][offset] = 165 /\ planes[1][offset] = 60)
                => (buffer[0] = 163 /\ buffer[1] = 92)

C2_Witness ==
    /\ Done /\ num_planes = 2 /\ bits_per_sample = 4 /\ nbytes = 1
    /\ planes[0][offset] = 165 /\ planes[1][offset] = 60
    /\ buffer[0] = 163 /\ buffer[1] = 92

\* C3: for 3 and 4 planes at depths 1, 2, 4, 8 the fast path's result is what
\* flipNx1to8 computes from the same arguments.
C3_FastEqualsGeneric ==
    (Done /\ num_planes \in {3, 4} /\ bits_per_sample \in {1, 2, 4, 8}) =>
        LET g == flipNx1to8(InitBuf, planes, offset, nbytes, num_planes,
                            bits_per_sample)
        IN code = g.code /\ buffer = g.buf

C3_Witness ==
    /\ Done /\ num_planes = 4 /\ bits_per_sample = 1 /\ nbytes = 2
    /\ planes[2][offset + 1] = 16 /\ planes[0][offset] = 0
    /\ buffer # InitBuf

\* the 24-bit block (high byte first) that input byte i of three planes produces
Block24(i) == buffer[3 * i] * 65536 + buffer[3 * i + 1] * 256 + buffer[3 * i + 2]

\* C4: for 3 planes at depth 1, sample k of plane j is bit 23 - 3k - j of the
\* block and no other bit is set; at depth 2 the sample k of plane j occupies
\* bits 23 - 6k - 2j and 22 - 6k - 2j; planes 0xFF, 0, 0 give 0x92, 0x49, 0x24.
C4_ThreePlaneBits ==
    (Done /\ num_planes = 3 /\ bits_per_sample \in {1, 2}) =>
        /\ code = 0
        /\ bits_per_sample = 1 =>
             \A i \in 0..(nbytes - 1) :
               /\ \A k \in 0..7 : \A j \in 0..2 :
                    Bit(Block24(i), 23 - 3 * k - j)
                      = Bit(planes[j][offset + i], 7 - k)
               /\ \A q \in 0..23 :
                    Bit(Block24(i), q) = 1 =>
                      \E k \in 0..7 : \E j \in 0..2 :
                        /\ q = 23 - 3 * k - j
                        /\ Bit(planes[j][offset + i], 7 - k) = 1
        /\ bits_per_sample = 2 =>
             \A i \in 0..(nbytes - 1) : \A k \in 0..3 : \A j \in 0..2 :
               /\ Bit(Block24(i), 23 - 6 * k - 2 * j)
                    = Bit(planes[j][offset + i], 7 - 2 * k)
               /\ Bit(Block24(i), 22 - 6 * k - 2 * j)
                    = Bit(planes[j][offset + i], 6 - 2 * k)
        /\ (bits_per_sample = 1 /\ nbytes >= 1 /\ planes[0][offset] = 255
              /\ planes[1][offset] = 0 /\ planes[2][offset] = 0)
             => (buffer[0] = 146 /\ buffer[1] = 73 /\ buffer[2] = 36)

C4_Witness ==
    /\ Done /\ num_planes = 3 /\ bits_per_sample = 1 /\ nbytes = 1
    /\ planes[0][offset] = 255 /\ planes[1][offset] = 0 /\ planes[2][offset] = 0
    /\ buffer[0] = 146 /\ buffer[1] = 73 /\ buffer[2] = 36

\* C5: at depth 16 with even nbytes every call with num_planes >= 1 succeeds
\* and the two bytes of sample i of plane p are copied in order to output
\* bytes 2*(i*num_planes + p) and 2*(i*num_planes + p) + 1.
C5_Depth16Identity ==
    (Done /\ bits_per_sample = 16 /\ num_planes >= 1 /\ nbytes % 2 = 0) =>
        /\ code = 0
        /\ \A i \in 0..(nbytes \div 2 - 1) : \A p \in 0..(num_planes - 1) :
             /\ buffer[2 * (i * num_planes + p)] = planes[p][offset + 2 * i]
             /\ buffer[2 * (i * num_planes + p) + 1]
                  = planes[p][offset + 2 * i + 1]

C5_Witness ==
    /\ Done /\ bits_per_sample = 16 /\ num_planes = 5 /\ nbytes = 4
    /\ planes[4][offset + 3] = 165 /\ planes[4][offset + 2] = 60
    /\ buffer[19] = 165 /\ buffer[18] = 60

\* the f-th 12-bit field of the output, MSB first
OutField12(f) ==
    LET b == (12 * f) \div 8
    IN IF f % 2 = 0 THEN buffer[b] * 16 + buffer[b + 1] \div 16
       ELSE (buffer[b] % 16) * 256 + buffer[b + 1]

\* 12-bit sample px (0 or 1) of the 3-byte group g of plane p
Sample12(p, g, px) ==
    LET b0 == planes[p][offset + 3 * g]
        b1 == planes[p][offset + 3 * g + 1]
        b2 == planes[p][offset + 3 * g + 2]
    IN IF px = 0 THEN b0 * 16 + b1 \div 16 ELSE (b1 % 16) * 256 + b2

\* C6: at depth 12 with nbytes a multiple of 3, each 3-byte group of 3 (4)
\* planes yields exactly 9 (12) output bytes, which read as 12-bit fields are
\* pixel 0's samples in plane order, then pixel 1's.
C6_Depth12Fixed ==
    (Done /\ bits_per_sample = 12 /\ num_planes \in {3, 4} /\ nbytes % 3 = 0) =>
        /\ code = 0
        /\ wr = 0..(3 * num_planes * (nbytes \div 3) - 1)
        /\ \A g \in 0..(nbytes \div 3 - 1) : \A px \in 0..1 :
             \A p \in 0..(num_planes - 1) :
               OutField12((2 * g + px) * num_planes + p) = Sample12(p, g, px)

C6_Witness ==
    /\ Done /\ bits_per_sample = 12 /\ num_planes = 4 /\ nbytes = 6
    /\ planes[1][offset + 4] = 165 /\ planes[1][offset + 3] = 60
    /\ Cardinality(wr) = 24
    /\ OutField12(13) = 1340

\* C7: a bits_per_sample below 1 or above 16 makes the call fail and leaves
\* every output byte as it was, nothing read and nothing written.
C7_InvalidDepth ==
    (Done /\ (bits_per_sample < 1 \/ bits_per_sample > 16)) =>
        code < 0 /\ buffer = InitBuf /\ wr = {} /\ rd = {}

C7_Witness ==
    /\ Done /\ bits_per_sample = 17 /\ num_planes = 3 /\ nbytes > 0
    /\ code < 0 /\ buffer = InitBuf

\* C8: a bits_per_sample in 1..16 outside {1,2,4,8,12,16} makes the call fail
\* for every num_planes >= 0 and leaves the output buffer unchanged.
C8_UnsupportedDepth ==
    (Done /\ bits_per_sample \in (1..16) \ SupportedDepths /\ num_planes >= 0) =>
        code < 0 /\ buffer = InitBuf /\ wr = {}

C8_Witness ==
    /\ Done /\ bits_per_sample = 3 /\ num_planes = 3 /\ nbytes > 0
    /\ code < 0 /\ wr = {}

\* C9: a negative num_planes makes the call fail, whatever bits_per_sample,
\* with no flip routine run and the output buffer unchanged.
C9_NegativePlanes ==
    (Done /\ num_planes < 0) =>
        code < 0 /\ buffer = InitBuf /\ wr = {} /\ rd = {}

C9_Witness ==
    /\ Done /\ num_planes = -1 /\ bits_per_sample = 8 /\ nbytes > 0
    /\ code < 0 /\ rd = {}

\* C10: with nbytes = 0, num_planes >= 0 and a supported depth the call
\* succeeds, stores no output byte and loads no plane byte.
C10_ZeroLength ==
    (Done /\ nbytes = 0 /\ num_planes >= 0
          /\ bits_per_sample \in SupportedDepths) =>
        code = 0 /\ wr = {} /\ rd = {} /\ buffer = InitBuf

C10_Witness ==
    /\ Done /\ nbytes = 0 /\ num_planes = 5 /\ bits_per_sample = 16
    /\ code = 0 /\ wr = {}

BothDone == \A t \in Threads : th[t].pc = "done"

\* a step of one thread leaves the planes and the other thread as they were
OwnStep ==
    /\ planes' = planes
    /\ \A t \in Threads : th'[t] # th[t] => th'[1 - t] = th[1 - t]

\* C11: two calls with the same arguments, each on its own output buffer,
\* whose loads and stores interleave in any way, both end with the code, the
\* output, the loads and the stores of one sequential call, and no step of
\* one changes anything the other uses.
C11_Reentrant ==
    /\ [](BothDone =>
            LET seq == image_flip_planes(buffer, planes, offset, nbytes,
                                         num_planes, bits_per_sample)
            IN \A t \in Threads :
                 /\ th[t].code = seq.code
                 /\ th[t].s.buf = seq.buf
                 /\ th[t].s.wr = seq.wr
                 /\ th[t].s.rd = seq.rd)
    /\ [][OwnStep]_vars

C11_Witness ==
    /\ BothDone /\ num_planes = 5 /\ bits_per_sample = 4 /\ nbytes = 1
    /\ th[0].code = 0 /\ th[1].s.buf = th[0].s.buf
    /\ th[1].s.buf[0] = 163 /\ th[1].s.wr = 0..4

\* C12: a call with nbytes < 0, num_planes >= 0 and a supported depth returns
\* an error rather than success.
C12_NegativeLength ==
    (Done /\ nbytes < 0 /\ num_planes >= 0
          /\ bits_per_sample \in SupportedDepths) =>
        code < 0

\* what the routines do with nbytes < 0: no loop iteration runs, the call
\* returns 0 and neither loads nor stores
NegativeLengthNoOp ==
    (Done /\ nbytes < 0 /\ num_planes >= 0
          /\ bits_per_sample \in SupportedDepths) =>
        code = 0 /\ wr = {} /\ rd = {} /\ buffer = InitBuf

\* the first k bytes behind offset of every plane
PlaneWindow(k) ==
    {<<p, i>> : p \in 0..(num_planes - 1), i \in offset..(offset + k - 1)}

\* the call loaded exactly k bytes of each plane and changed no output byte
\* outside the first num_planes * k
ExtentIs(k) ==
    /\ rd = PlaneWindow(k)
    /\ wr \subseteq 0..(num_planes * k - 1)
    /\ \A i \in (DOMAIN buffer) \ (0..(num_planes * k - 1)) :
         buffer[i] = InitBuf[i]

ExtentCase ==
    /\ Done /\ code = 0 /\ num_planes >= 1 /\ nbytes >= 0
    /\ bits_per_sample \in SupportedDepths
    /\ bits_per_sample = 12 => nbytes % 3 = 0

\* C13 as stated: a successful call loads exactly the nbytes bytes behind
\* offset of each plane and changes only the first num_planes * nbytes output
\* bytes, at depth 16 whatever the parity of nbytes.
C13_ExtentAnyParity == ExtentCase => ExtentIs(nbytes)

\* C13: a successful call loads exactly the nbytes bytes behind offset of each
\* plane and stores exactly the first num_planes * nbytes output bytes, every
\* other output byte unchanged; at depth 16 an odd nbytes counts as nbytes + 1.
C13_Extent ==
    ExtentCase =>
        LET k == IF bits_per_sample = 16 /\ nbytes % 2 = 1
                 THEN nbytes + 1 ELSE nbytes
        IN ExtentIs(k) /\ wr = 0..(num_planes * k - 1)

C13_Witness ==
    /\ Done /\ code = 0 /\ bits_per_sample = 16 /\ num_planes = 3 /\ nbytes = 1
    /\ <<2, offset + 1>> \in rd
    /\ wr = 0..5 /\ buffer[5] = planes[2][offset + 1]

\* an output buffer that differs from InitBuf in every bit
AltBuf == [i \in 0..(BufLen - 1) |-> 255 - fill]

\* bits flipNx12 appends: 12 per plane for each step of 12 of the bit index
\* below nbytes * 8
Bits12 == 12 * num_planes * ((nbytes * 8 + 11) \div 12)

\* C14: the output buffer is never read: the same call on a buffer with other
\* contents returns the same code, stores to the same indices and leaves the
\* same bytes there; and when the bit cursor of a generic routine ends partly
\* filled, the byte flushed last has its unused low bits zero.
C14_WriteOnly ==
    Done =>
        LET alt == image_flip_planes(AltBuf, planes, offset, nbytes, num_planes,
                                     bits_per_sample)
        IN /\ alt.code = code /\ alt.wr = wr /\ alt.rd = rd
           /\ \A i \in wr : alt.buf[i] = buffer[i]
           /\ (code = 0 /\ num_planes >= 1 /\ num_planes \notin {3, 4}
                 /\ nbytes >= 0)
                => /\ bits_per_sample \in {1, 2, 4, 8}
                        => wr = 0..(num_planes * nbytes - 1)
                   /\ (bits_per_sample = 12 /\ Bits12 % 8 # 0)
                        => /\ wr = 0..(Bits12 \div 8)
                           /\ buffer[Bits12 \div 8] % 16 = 0

C14_Witness ==
    /\ Done /\ code = 0 /\ bits_per_sample = 12 /\ num_planes = 1 /\ nbytes = 1
    /\ planes[0][offset] = 165 /\ planes[0][offset + 1] = 60
    /\ wr = {0, 1} /\ buffer[0] = 165 /\ buffer[1] = 48

\* C15: the call returns 0 exactly when num_planes >= 0 and bits_per_sample is
\* one of 1, 2, 4, 8, 12, 16; it never returns flipNx1to8's rangecheck error;
\* and a failing call has loaded nothing, stored nothing and left the output
\* buffer as it was.
C15_ReturnValue ==
    Done =>
        /\ code = 0 <=> (num_planes >= 0 /\ bits_per_sample \in SupportedDepths)
        /\ code # gs_error_rangecheck
        /\ code # 0 => (code = -1 /\ wr = {} /\ rd = {} /\ buffer = InitBuf)

C15_Witness ==
    /\ Done /\ num_planes = 5 /\ bits_per_sample = 3 /\ nbytes > 0
    /\ code = -1 /\ wr = {} /\ buffer = InitBuf

\* the errno values the retry is for
Retryable == {"EINTR", "EAGAIN", "EWOULDBLOCK"}

\* the OS call has just failed with one of them
RetryResult == spc = "returned" /\ nret < 0 /\ errno \in Retryable

\* what a finished routine returns and where it leaves the cursor
FdOutcome ==
    IF sproc = "write" /\ limit = ptr0
    THEN status = "0" /\ ptr = ptr0 /\ ~retried
    ELSE /\ nret > 0 => (ptr = ptr0 + nret /\ status \in {"0", "1", EOFC})
         /\ nret = 0 => (ptr = ptr0
                           /\ status = IF sproc = "read" THEN EOFC ELSE "0")
         /\ nret < 0 => (ptr = ptr0 /\ status = ERRC /\ errno \notin Retryable)
         /\ status = ERRC => nret < 0

\* a step behind a retryable failure goes back to again, with the cursor and
\* the status as they were and no return
RetryStep ==
    RetryResult => (spc' = "again" /\ ptr' = ptr /\ status' # ERRC)

\* from again after a retry the next step is the OS call once more
ReissueStep == (spc = "again" /\ retried) => spc' = "returned"

\* the cursor moves only by the count a successful OS call returned
CursorStep ==
    ptr' # ptr => (spc = "returned" /\ nret > 0 /\ ptr' = ptr + nret)

\* C16: a read() / write() failing with EINTR, EAGAIN or EWOULDBLOCK is never
\* reported as ERRC but makes the routine issue the OS call again; the cursor
\* advances only by the count of a successful call; the routine returns EOFC
\* for a zero-byte read and ERRC for any other errno; and it returns if the OS
\* eventually stops failing with a retryable errno.
C16_OsRetry ==
    /\ [](spc = "done" => FdOutcome)
    /\ [][RetryStep /\ ReissueStep /\ CursorStep]_vars
    /\ (<>[](~RetryResult)) => <>(spc = "done")

C16_Witness ==
    /\ spc = "done" /\ sproc = "read" /\ retried
    /\ nret = 0 /\ status = EOFC /\ ptr = ptr0 /\ limit > ptr0

====
